---- MODULE Spec2Model ----
(***************************************************************************)
(* The request handlers of /api/v1/domains/:domainId                       *)
(* (src/src/routes/api/v1/domains/domainId.ts): GET, PUT (the domain       *)
(* heartbeat) and DELETE of one Domain, over the Domains and Places        *)
(* stores.  A request is received by the route's middleware, handled by    *)
(* one proc* handler (one action each, the whole handler) and finished by  *)
(* finishMetaverseAPI.                                                     *)
(***************************************************************************)
EXTENDS Integers, Sequences, FiniteSets, TLC

(* ------------------------------ bounds --------------------------------- *)

\* requests one behaviour receives
MaxRequests == 1
\* heartbeats one run of heartbeats receives
MaxBeats == 3
\* the wall clock runs from 0 to MaxTime
MaxTime == 1
\* Places in the store at the start
MaxPlaces == 4
\* own properties one request body carries (flat, heartbeat and meta together)
MaxKeys == 3

(* ------------------------- names and constants -------------------------- *)

\* the flat list had it also named the Domain's sponsor
FlatFieldsWithSponsor ==
  <<"version", "protocol", "network_addr", "network_port", "automatic_networking",
    "restricted", "capacity", "description", "maturity", "restriction", "hosts", "tags",
    "sponsor_account_id">>

\* the for-loop's list at lines 72-73
FlatFields ==
  <<"version", "protocol", "network_addr", "network_port", "automatic_networking",
    "restricted", "capacity", "description", "maturity", "restriction", "hosts", "tags">>

\* the for-loop's list at lines 86-87
MetaFields ==
  <<"capacity", "contact_info", "description", "managers", "tags", "images",
    "maturity", "restriction", "thumbnail", "world_name">>

\* the two fields the 'heartbeat' object is read for, lines 79-80
HeartbeatFields == <<"num_users", "num_anon_users">>

Range(s) == {s[i] : i \in 1..Len(s)}

\* fields of a Domain the handlers never name: its identity and its secrets
SecretFields == {"domainId", "api_key", "sponsor_account_id"}

\* every field setDomainField knows how to set
DomainFieldNames ==
  Range(FlatFields) \cup Range(MetaFields) \cup Range(HeartbeatFields) \cup SecretFields

\* every field of a stored Domain
EntityFields == DomainFieldNames \cup {"timeOfLastHeartbeat"}

\* the registered Domains
DomainIds == {"D1", "D2"}
\* the :domainId a request may name: a registered one or one never registered
ParamIds == {"D1", "D9"}

NoAccount == "no_account"
\* the credentials a request may carry: none, a Domain's API key, an Account's token
AuthTokens == {"none", "key_D1", "key_D2", "tok_admin", "tok_sponsor", "tok_user"}

\* Perm.DOMAIN, Perm.SPONSOR, Perm.ADMIN (line 65)
Perm == {"DOMAIN", "SPONSOR", "ADMIN"}

\* values a request may carry for a field: one a validator accepts, one it refuses
ValidValues == {"v1"}
PayloadValues == ValidValues \cup {"bad"}
\* what reading a property an object does not have gives
Undefined == "undefined"

\* HTTPStatusCode.Unauthorized (lines 54, 110) and the status of a fresh response
StatusUnauthorized == "Unauthorized"
StatusOK == "OK"

(* ------------------------------ objects --------------------------------- *)

\* the objects with some own properties among keys; a name no list of the
\* handler holds comes with one value, the others with either
Objs(keys) ==
  {o \in UNION {[K -> PayloadValues] : K \in SUBSET keys} :
     \A k \in (DOMAIN o) \cap SecretFields : o[k] \in ValidValues}

NoProps == [k \in {} |-> Undefined]

\* o with property k set to v
Put(o, k, v) == [x \in (DOMAIN o) \cup {k} |-> IF x = k THEN v ELSE o[x]]

\* o.hasOwnProperty(k)
hasOwnProperty(o, k) == k \in DOMAIN o

\* o[k]: undefined when o has no such property
Prop(o, k) == IF k \in DOMAIN o THEN o[k] ELSE Undefined

(* ------------------------------ requests -------------------------------- *)

\* names the domain object of a request body may hold at its top level
FlatKeys == {"capacity", "sponsor_account_id"}
\* names the 'heartbeat' object of a request body may hold
HeartbeatKeys == {"num_users", "num_anon_users"}
\* names the 'meta' object of a request body may hold
MetaKeys == {"managers", "api_key", "capacity"}

\* the value of the body's 'heartbeat' property: no such property, null, or an object
Heartbeats ==
  {[kind |-> k, fields |-> NoProps] : k \in {"absent", "null"}}
    \cup {[kind |-> "object", fields |-> f] : f \in Objs(HeartbeatKeys)}

\* the value of the body's 'meta' property: no such property, null, or an object
Metas ==
  {[kind |-> k, fields |-> NoProps] : k \in {"absent", "null"}}
    \cup {[kind |-> "object", fields |-> f] : f \in Objs(MetaKeys)}

NoHeartbeat == [kind |-> "absent", fields |-> NoProps]
NoMeta == [kind |-> "absent", fields |-> NoProps]

\* req.body.domain when the body has no 'domain' property, or a null one
NotAnObject(k) == [kind |-> k, flat |-> NoProps, heartbeat |-> NoHeartbeat, meta |-> NoMeta]

\* the properties an object holds, its 'heartbeat' and 'meta' and theirs included
NKeys(v) ==
  Cardinality(DOMAIN v.flat)
    + (IF v.heartbeat.kind = "absent" THEN 0 ELSE 1) + Cardinality(DOMAIN v.heartbeat.fields)
    + (IF v.meta.kind = "absent" THEN 0 ELSE 1) + Cardinality(DOMAIN v.meta.fields)

\* req.body.domain: undefined, null, or an object of at most MaxKeys properties
Bodies ==
  {NotAnObject("undefined"), NotAnObject("null")}
    \cup {v \in [kind : {"object"}, flat : Objs(FlatKeys), heartbeat : Heartbeats, meta : Metas] :
            NKeys(v) <= MaxKeys}

\* JavaScript's truthiness of req.body.domain and of valuesToSet.meta
Truthy(kind) == kind = "object"

\* the account a credential resolves to (accountFromAuthToken)
AccountOf(token) ==
  CASE token = "tok_admin" -> "admin"
    [] token = "tok_sponsor" -> "sponsor"
    [] token = "tok_user" -> "user"
    [] OTHER -> NoAccount

NoDomain == "no_domain"
NoRequest ==
  [method |-> "none", domainId |-> NoDomain, vDomain |-> NoDomain, vDomainError |-> Undefined,
   vAuthToken |-> "none", vAuthAccount |-> NoAccount, body |-> NotAnObject("undefined"),
   placeFail |-> {}]

\* the response setupMetaverseAPI creates: a success until a handler says otherwise
FreshResponse ==
  [success |-> TRUE, message |-> "", HTTPStatus |-> StatusOK, Data |-> {}, additional |-> {}]

\* RESTResponse.respondFailure
respondFailure(resp, msg) == [resp EXCEPT !.success = FALSE, !.message = msg]

(* ------------------------------- stores --------------------------------- *)

\* the API key that proves a Domain's identity
KeyOf(id) == IF id = "D1" THEN "key_D1" ELSE "key_D2"

\* a Domain as registered: every field at its first value
NewDomain(id, sponsor) ==
  [f \in EntityFields |->
     CASE f = "domainId" -> id
       [] f = "api_key" -> KeyOf(id)
       [] f = "sponsor_account_id" -> sponsor
       [] f = "timeOfLastHeartbeat" -> 0
       [] OTHER -> "v0"]

\* the Domain each Place of the start references
PlaceDomain(i) == IF i < MaxPlaces THEN "D1" ELSE "D2"

\* Accounts.isAdmin
isAdmin(account) == account = "admin"

\* checkAccessToEntity: does the credential hold one of the roles over the Domain
checkAccessToEntity(pAuthToken, pEntity, pPerms) ==
  \/ "DOMAIN" \in pPerms /\ pAuthToken = pEntity["api_key"]
  \/ "SPONSOR" \in pPerms /\ AccountOf(pAuthToken) # NoAccount
       /\ AccountOf(pAuthToken) = pEntity["sponsor_account_id"]
  \/ "ADMIN" \in pPerms /\ AccountOf(pAuthToken) # NoAccount /\ isAdmin(AccountOf(pAuthToken))

\* the roles that may set a field (setDomainField's finer check)
SetPermissions(pField) ==
  CASE pField = "managers" -> {"SPONSOR", "ADMIN"}
    [] pField = "sponsor_account_id" -> {"ADMIN"}
    [] pField \in {"domainId", "api_key"} -> {}
    [] OTHER -> Perm

\* a field's validator
ValidValue(pField, pVal) == pVal \in ValidValues

\* does setDomainField accept the value for the field from this caller
FieldAccepted(pAuthToken, pDomain, pField, pVal) ==
  /\ pField \in DomainFieldNames
  /\ checkAccessToEntity(pAuthToken, pDomain, SetPermissions(pField))
  /\ ValidValue(pField, pVal)

\* setDomainField: the change-set with the field added when accepted, else as it was
setDomainField(pAuthToken, pDomain, pField, pVal, pAccount, updated) ==
  IF FieldAccepted(pAuthToken, pDomain, pField, pVal) THEN Put(updated, pField, pVal) ELSE updated

\* Domains.updateEntityFields: the change-set merged into the stored Domain
updateEntityFields(store, id, updated) ==
  IF id \in DOMAIN store
    THEN [store EXCEPT ![id] =
            [f \in EntityFields |-> IF f \in DOMAIN updated THEN updated[f] ELSE store[id][f]]]
    ELSE store

\* Domains.removeDomain
removeDomain(store, id) == [d \in (DOMAIN store) \ {id} |-> store[d]]

\* Places.enumerateAsync(new GenericFilter({ 'domainId': id }))
enumerateAsync(places, id) == {p \in places : p.domainId = id}

\* Places.removePlace: the Place leaves the store unless its removal fails
removePlace(places, place, failing) == IF place.id \in failing THEN places ELSE places \ {place}

(* ------------------------------- state ---------------------------------- *)

VARIABLES
  Domains,     \* the Domain store: domainId -> the stored Domain
  Places,      \* the Place store: a set of [id, domainId]
  now,         \* the wall clock new Date() reads
  nreq,        \* requests received so far
  pc,          \* "idle", "handling" (the handler is next), "next" (the handler
               \* called next()), "fault" (the handler's promise was rejected),
               \* "cascade" (a DELETE is in its for-await loop)
  req,         \* the request in hand, as the middleware left it
  vRestResp,   \* req.vRestResp
  setCalls,    \* the <<field, value>> pairs this request gave setDomainField, in order
  commits,     \* the change-sets this request gave Domains.updateEntityFields, in order
  removed,     \* what this request gave Domains.removeDomain and Places.removePlace
  pre,         \* the stores as they were when the request was received
  inFlight     \* the Domains.updateEntityFields calls issued and not yet applied by
               \* the store, when the store applies them on its own time

vars ==
  <<Domains, Places, now, nreq, pc, req, vRestResp, setCalls, commits, removed, pre, inFlight>>

NoneRemoved == [domains |-> {}, places |-> {}]

Init ==
  /\ Domains = [d \in DomainIds |-> NewDomain(d, IF d = "D1" THEN "sponsor" ELSE "nobody")]
  /\ Places = {[id |-> i, domainId |-> PlaceDomain(i)] : i \in 1..MaxPlaces}
  /\ now = 0
  /\ nreq = 0
  /\ pc = "idle"
  /\ req = NoRequest
  /\ vRestResp = FreshResponse
  /\ setCalls = <<>>
  /\ commits = <<>>
  /\ removed = NoneRemoved
  /\ pre = [Domains |-> Domains, Places |-> Places]
  /\ inFlight = {}

\* the clock moves on between requests
Tick ==
  /\ pc = "idle"
  /\ now < MaxTime
  /\ now' = now + 1
  /\ UNCHANGED <<Domains, Places, nreq, pc, req, vRestResp, setCalls, commits, removed, pre, inFlight>>

\* the request the route's middleware hands to the handler: setupMetaverseAPI
\* makes the response, domainFromParams resolves :domainId, the credential is
\* resolved to an Account
Arrives(method, id, token, body, failing) ==
  /\ nreq' = nreq + 1
  /\ \E err \in {Undefined, "DomainId does not match a domain"} :
       /\ id \in DOMAIN Domains => err = Undefined
       /\ req' = [method |-> method, domainId |-> id,
                  vDomain |-> IF id \in DOMAIN Domains THEN id ELSE NoDomain,
                  vDomainError |-> err,
                  vAuthToken |-> token, vAuthAccount |-> AccountOf(token),
                  body |-> body, placeFail |-> failing]
  /\ vRestResp' = FreshResponse
  /\ setCalls' = <<>>
  /\ commits' = <<>>
  /\ removed' = NoneRemoved
  /\ pre' = [Domains |-> Domains, Places |-> Places]
  /\ pc' = "handling"
  /\ UNCHANGED <<Domains, Places, now, inFlight>>

\* a DELETE and the removals of Places that will fail while it runs
ArrivesDelete(id, token) ==
  \E failing \in SUBSET {p.id : p \in enumerateAsync(Places, id)} :
    Arrives("DELETE", id, token, NotAnObject("undefined"), failing)

\* a request arrives when none is in hand
Receive ==
  /\ pc \in {"idle", "fault"}
  /\ nreq < MaxRequests
  /\ \/ \E id \in ParamIds : Arrives("GET", id, "none", NotAnObject("undefined"), {})
     \/ \E id \in ParamIds, token \in AuthTokens, body \in Bodies :
          Arrives("PUT", id, token, body, {})
     \/ \E id \in ParamIds, token \in AuthTokens : ArrivesDelete(id, token)

\* the bodies of a plain heartbeat: at most one property
BeatBodies == {b \in Bodies : NKeys(b) <= 1}

\* a run of heartbeats: PUT requests one after another
ReceiveBeat ==
  /\ pc \in {"idle", "fault"}
  /\ nreq < MaxBeats
  /\ \E id \in ParamIds, token \in AuthTokens, body \in BeatBodies :
       Arrives("PUT", id, token, body, {})

(* --------------------- GET /api/v1/domains/:domainId -------------------- *)

\* buildDomainInfoV1: the public fields of a Domain, none of its secrets
buildDomainInfoV1(aDomain) ==
  [f \in EntityFields \ {"api_key", "sponsor_account_id"} |-> aDomain[f]]

procGetDomainsDomainid ==
  /\ pc = "handling"
  /\ req.method = "GET"
  /\ IF req.vDomain # NoDomain
       THEN LET domainInfo == buildDomainInfoV1(Domains[req.vDomain])
            IN vRestResp' = [vRestResp EXCEPT !.Data = {domainInfo}, !.additional = {domainInfo}]
       ELSE vRestResp' =
              [respondFailure(vRestResp,
                              IF req.vDomainError # Undefined THEN req.vDomainError
                                                              ELSE "Domain not found")
                 EXCEPT !.HTTPStatus = StatusUnauthorized]
  /\ pc' = "next"
  /\ UNCHANGED <<Domains, Places, now, nreq, req, setCalls, commits, removed, pre, inFlight>>

(* --------------------- PUT /api/v1/domains/:domainId -------------------- *)

\* the gate had it asked only for a credential that resolves to someone
PutGateAnyCredential(r, entity) == r.vAuthToken # "none"

\* the gate had it asked for the Domain's own credential alone
PutGateDomainOnly(r, entity) == checkAccessToEntity(r.vAuthToken, entity, {"DOMAIN"})

\* the gate at line 65
PutGate(r, entity) == checkAccessToEntity(r.vAuthToken, entity, {"DOMAIN", "SPONSOR", "ADMIN"})

\* the test had it also refused an object without properties
PayloadPresentNonEmpty(valuesToSet) == Truthy(valuesToSet.kind) /\ NKeys(valuesToSet) > 0

\* the test had it let every body through
PayloadPresentAlways(valuesToSet) == TRUE

\* if (valuesToSet), line 68
PayloadPresent(valuesToSet) == Truthy(valuesToSet.kind)

\* one awaited setDomainField call: st is [updated, calls]
CallSetDomainField(r, entity, st, field, value) ==
  [updated |-> setDomainField(r.vAuthToken, entity, field, value, r.vAuthAccount, st.updated),
   calls |-> Append(st.calls, <<field, value>>)]

\* for (const field of fields) if (values.hasOwnProperty(field)) setDomainField(...),
\* from the i-th field on
RECURSIVE ForFields(_, _, _, _, _, _)
ForFields(fields, i, values, r, entity, st) ==
  IF i > Len(fields) THEN st
  ELSE ForFields(fields, i + 1, values, r, entity,
                 IF hasOwnProperty(values, fields[i])
                   THEN CallSetDomainField(r, entity, st, fields[i], values[fields[i]])
                   ELSE st)

\* lines 78-81 when valuesToSet has a 'heartbeat' that can be read
ForHeartbeat(heartbeat, r, entity, st) ==
  CallSetDomainField(r, entity,
    CallSetDomainField(r, entity, st, "num_users", Prop(heartbeat.fields, "num_users")),
    "num_anon_users", Prop(heartbeat.fields, "num_anon_users"))

\* reading valuesToSet.heartbeat.num_users throws a TypeError when heartbeat is null
HeartbeatThrows(valuesToSet) == valuesToSet.heartbeat.kind = "null"

\* the stamp had it read the clock only for a change-set that holds a field
StampHeartbeatOnlyWithFields(updated, clock) ==
  Put(updated, "timeOfLastHeartbeat", IF DOMAIN updated = {} THEN 0 ELSE clock)

\* updated.timeOfLastHeartbeat = new Date(), line 95
StampHeartbeat(updated, clock) == Put(updated, "timeOfLastHeartbeat", clock)

\* the commit had it been skipped whenever setDomainField refused a field
ChangeSetsAllOrNothing(st, clock) ==
  IF \A i \in 1..Len(st.calls) : st.calls[i][1] \in DOMAIN st.updated
    THEN <<StampHeartbeat(st.updated, clock)>>
    ELSE <<>>

\* lines 95-97: the change-sets given to Domains.updateEntityFields, the one
\* change-set with the heartbeat's time in it
ChangeSets(st, clock) == <<StampHeartbeat(st.updated, clock)>>

\* the loops had a body with a 'meta' been read for its 'meta' alone
CollectFieldsMetaOnly(valuesToSet, r, entity) ==
  LET st0 == [updated |-> NoProps, calls |-> <<>>]
      st1 == ForFields(FlatFields, 1, valuesToSet.flat, r, entity, st0)
      st2 == IF valuesToSet.heartbeat.kind # "absent" /\ ~HeartbeatThrows(valuesToSet)
               THEN ForHeartbeat(valuesToSet.heartbeat, r, entity, st1)
               ELSE st1
  IN  IF Truthy(valuesToSet.meta.kind)
        THEN ForFields(MetaFields, 1, valuesToSet.meta.fields, r, entity, st0)
        ELSE IF HeartbeatThrows(valuesToSet) THEN st1 ELSE st2

\* lines 72-92: the flat loop, the heartbeat pair, then the meta loop
CollectFields(valuesToSet, r, entity) ==
  LET st0 == [updated |-> NoProps, calls |-> <<>>]
      st1 == ForFields(FlatFields, 1, valuesToSet.flat, r, entity, st0)
      st2 == IF valuesToSet.heartbeat.kind # "absent" /\ ~HeartbeatThrows(valuesToSet)
               THEN ForHeartbeat(valuesToSet.heartbeat, r, entity, st1)
               ELSE st1
      st3 == IF Truthy(valuesToSet.meta.kind)
               THEN ForFields(MetaFields, 1, valuesToSet.meta.fields, r, entity, st2)
               ELSE st2
  IN  IF HeartbeatThrows(valuesToSet) THEN st1 ELSE st3

\* the handler had it looked at the payload before the caller's permission
PutOutcomePayloadFirst(r, store, resp, clock) ==
  IF r.vDomain # NoDomain
    THEN IF PayloadPresent(r.body)
      THEN IF PutGate(r, store[r.vDomain])
        THEN LET st == CollectFields(r.body, r, store[r.vDomain])
             IN  IF HeartbeatThrows(r.body)
                   THEN [pc |-> "fault", resp |-> resp, calls |-> st.calls, commits |-> <<>>]
                   ELSE [pc |-> "next", resp |-> resp, calls |-> st.calls,
                         commits |-> ChangeSets(st, clock)]
        ELSE [pc |-> "next", resp |-> respondFailure(resp, "Unauthorized"),
              calls |-> <<>>, commits |-> <<>>]
      ELSE [pc |-> "next", resp |-> respondFailure(resp, "badly formed data"),
            calls |-> <<>>, commits |-> <<>>]
    ELSE [pc |-> "next",
          resp |-> [respondFailure(resp, IF r.vDomainError # Undefined THEN r.vDomainError
                                                                        ELSE "Domain not found")
                      EXCEPT !.HTTPStatus = StatusUnauthorized],
          calls |-> <<>>, commits |-> <<>>]

\* what the handler does with request r: [pc, resp, calls, commits]
PutOutcome(r, store, resp, clock) ==
  IF r.vDomain # NoDomain
    THEN IF PutGate(r, store[r.vDomain])
      THEN IF PayloadPresent(r.body)
        THEN LET st == CollectFields(r.body, r, store[r.vDomain])
             IN  IF HeartbeatThrows(r.body)
                   THEN [pc |-> "fault", resp |-> resp, calls |-> st.calls, commits |-> <<>>]
                   ELSE [pc |-> "next", resp |-> resp, calls |-> st.calls,
                         commits |-> ChangeSets(st, clock)]
        ELSE [pc |-> "next", resp |-> respondFailure(resp, "badly formed data"),
              calls |-> <<>>, commits |-> <<>>]
      ELSE [pc |-> "next", resp |-> respondFailure(resp, "Unauthorized"),
            calls |-> <<>>, commits |-> <<>>]
    ELSE [pc |-> "next",
          resp |-> [respondFailure(resp, IF r.vDomainError # Undefined THEN r.vDomainError
                                                                        ELSE "Domain not found")
                      EXCEPT !.HTTPStatus = StatusUnauthorized],
          calls |-> <<>>, commits |-> <<>>]

\* the store after the change-sets were given to Domains.updateEntityFields in order
RECURSIVE Committed(_, _, _, _)
Committed(store, id, sets, i) ==
  IF i > Len(sets) THEN store
  ELSE Committed(updateEntityFields(store, id, sets[i]), id, sets, i + 1)

procPutDomains ==
  /\ pc = "handling"
  /\ req.method = "PUT"
  /\ \E out \in {PutOutcome(req, Domains, vRestResp, now)} :
         /\ vRestResp' = out.resp
         /\ setCalls' = out.calls
         /\ commits' = out.commits
         /\ Domains' = Committed(Domains, req.vDomain, out.commits, 1)
         /\ pc' = out.pc
  /\ UNCHANGED <<Places, now, nreq, req, removed, pre, inFlight>>

(* ------------------- DELETE /api/v1/domains/:domainId ------------------- *)

\* the gates had the second been left out: any Account may delete
DeleteGateAnyAccount(r) == r.vAuthAccount # NoAccount

\* the gates at lines 117-118
DeleteGate(r) == r.vAuthAccount # NoAccount /\ isAdmin(r.vAuthAccount)

\* the loop had it stopped after the first Place
CascadeTargetsFirstOnly(places, id) ==
  IF enumerateAsync(places, id) = {} THEN {}
  ELSE {CHOOSE p \in enumerateAsync(places, id) : TRUE}

\* the Places the for-await loop at line 123 visits
CascadeTargets(places, id) == enumerateAsync(places, id)

\* the loop had a failed removal ended it
RECURSIVE RemoveEachUntilFailure(_, _, _)
RemoveEachUntilFailure(places, todo, failing) ==
  IF todo = {} THEN places
  ELSE LET place == CHOOSE x \in todo : TRUE
       IN  IF place.id \in failing THEN places
           ELSE RemoveEachUntilFailure(removePlace(places, place, failing), todo \ {place}, failing)

\* Places.removePlace for each Place visited, each on its own
RECURSIVE RemoveEach(_, _, _)
RemoveEach(places, todo, failing) ==
  IF todo = {} THEN places
  ELSE LET place == CHOOSE x \in todo : TRUE
       IN  RemoveEach(removePlace(places, place, failing), todo \ {place}, failing)

\* the else branch of line 127 had it been left out
respondMissingTargetSilently(resp) == resp

\* line 128
respondMissingTarget(resp) == respondFailure(resp, "Target domain does not exist")

\* the handler had it looked for the target Domain before the caller's Account
DeleteOutcomeTargetFirst(r, store, places, resp) ==
  IF r.vDomain # NoDomain
    THEN IF DeleteGate(r)
      THEN LET targets == CascadeTargets(places, store[r.vDomain]["domainId"])
           IN  [resp |-> resp,
                domains |-> removeDomain(store, r.vDomain),
                places |-> RemoveEach(places, targets, r.placeFail),
                removed |-> [domains |-> {r.vDomain}, places |-> {p.id : p \in targets}]]
      ELSE [resp |-> respondFailure(resp, "Not authorized"),
            domains |-> store, places |-> places, removed |-> NoneRemoved]
    ELSE [resp |-> respondMissingTarget(resp),
          domains |-> store, places |-> places, removed |-> NoneRemoved]

\* what the handler does with request r: [resp, domains, places, removed]
DeleteOutcome(r, store, places, resp) ==
  IF DeleteGate(r)
    THEN IF r.vDomain # NoDomain
      THEN LET targets == CascadeTargets(places, store[r.vDomain]["domainId"])
           IN  [resp |-> resp,
                domains |-> removeDomain(store, r.vDomain),
                places |-> RemoveEach(places, targets, r.placeFail),
                removed |-> [domains |-> {r.vDomain}, places |-> {p.id : p \in targets}]]
      ELSE [resp |-> respondMissingTarget(resp),
            domains |-> store, places |-> places, removed |-> NoneRemoved]
    ELSE [resp |-> respondFailure(resp, "Not authorized"),
          domains |-> store, places |-> places, removed |-> NoneRemoved]

procDeleteDomains ==
  /\ pc = "handling"
  /\ req.method = "DELETE"
  /\ \E out \in {DeleteOutcome(req, Domains, Places, vRestResp)} :
         /\ vRestResp' = out.resp
         /\ Domains' = out.domains
         /\ Places' = out.places
         /\ removed' = out.removed
  /\ pc' = "next"
  /\ UNCHANGED <<now, nreq, req, setCalls, commits, pre, inFlight>>

(* ------------------------------ the route ------------------------------- *)

\* finishMetaverseAPI: the response is sent and the request is over
finishMetaverseAPI ==
  /\ pc = "next"
  /\ pc' = "idle"
  /\ req' = NoRequest
  /\ vRestResp' = FreshResponse
  /\ setCalls' = <<>>
  /\ commits' = <<>>
  /\ removed' = NoneRemoved
  /\ pre' = [Domains |-> Domains, Places |-> Places]
  /\ UNCHANGED <<Domains, Places, now, nreq, inFlight>>

Next ==
  \/ Tick
  \/ Receive
  \/ procGetDomainsDomainid
  \/ procPutDomains
  \/ procDeleteDomains
  \/ finishMetaverseAPI

Spec == Init /\ [][Next]_vars

\* a Domain sending its heartbeats one after another
NextBeats ==
  \/ Tick
  \/ ReceiveBeat
  \/ procPutDomains
  \/ finishMetaverseAPI

SpecBeats == Init /\ [][NextBeats]_vars

(* ------------------ DELETE, one awaited step at a time ------------------ *)

\* a DELETE arrives when no request is in hand
ReceiveDelete ==
  /\ pc \in {"idle", "fault"}
  /\ nreq < MaxRequests
  /\ \E id \in ParamIds, token \in AuthTokens : ArrivesDelete(id, token)

\* lines 117-120 and 127-137: the gates, and Domains.removeDomain when they pass
deleteRemoveDomain ==
  /\ pc = "handling"
  /\ req.method = "DELETE"
  /\ IF DeleteGate(req) /\ req.vDomain # NoDomain
       THEN /\ Domains' = removeDomain(Domains, req.vDomain)
            /\ removed' = [removed EXCEPT !.domains = {req.vDomain}]
            /\ pc' = "cascade"
            /\ UNCHANGED vRestResp
       ELSE /\ vRestResp' = DeleteOutcome(req, Domains, Places, vRestResp).resp
            /\ pc' = "next"
            /\ UNCHANGED <<Domains, removed>>
  /\ UNCHANGED <<Places, now, nreq, req, setCalls, commits, pre, inFlight>>

\* the Places the enumeration of line 123 has yet to yield
YetToVisit ==
  {p \in CascadeTargets(Places, pre.Domains[req.vDomain]["domainId"]) : p.id \notin removed.places}

\* lines 123-124: one turn of the for-await loop
deleteRemovePlace ==
  /\ pc = "cascade"
  /\ \E place \in YetToVisit :
       /\ Places' = removePlace(Places, place, req.placeFail)
       /\ removed' = [removed EXCEPT !.places = @ \cup {place.id}]
  /\ UNCHANGED <<Domains, now, nreq, pc, req, vRestResp, setCalls, commits, pre, inFlight>>

\* lines 125 and 138: the enumeration is over, next()
deleteCascadeDone ==
  /\ pc = "cascade"
  /\ YetToVisit = {}
  /\ pc' = "next"
  /\ UNCHANGED <<Domains, Places, now, nreq, req, vRestResp, setCalls, commits, removed, pre,
                 inFlight>>

NextCascade ==
  \/ Tick
  \/ ReceiveDelete
  \/ deleteRemoveDomain
  \/ deleteRemovePlace
  \/ deleteCascadeDone
  \/ finishMetaverseAPI

SpecCascade == Init /\ [][NextCascade]_vars

(* ------------- PUT, the store applying commits on its own time ---------- *)

\* procPutDomains with line 97 as written: updateEntityFields is called and
\* not awaited, the handler goes on to next()
issuePutDomains ==
  /\ pc = "handling"
  /\ req.method = "PUT"
  /\ \E out \in {PutOutcome(req, Domains, vRestResp, now)} :
         /\ vRestResp' = out.resp
         /\ setCalls' = out.calls
         /\ commits' = out.commits
         /\ inFlight' = inFlight \cup
              {[domain |-> req.vDomain, updated |-> out.commits[i]] : i \in 1..Len(out.commits)}
         /\ pc' = out.pc
  /\ UNCHANGED <<Domains, Places, now, nreq, req, removed, pre>>

\* the store applies one of the updates it was given, whichever
landCommit ==
  /\ \E c \in inFlight :
       /\ Domains' = updateEntityFields(Domains, c.domain, c.updated)
       /\ inFlight' = inFlight \ {c}
  /\ UNCHANGED <<Places, now, nreq, pc, req, vRestResp, setCalls, commits, removed, pre>>

NextInFlight ==
  \/ Tick
  \/ ReceiveBeat
  \/ issuePutDomains
  \/ landCommit
  \/ finishMetaverseAPI

SpecInFlight == Init /\ [][NextInFlight]_vars

(* ------------------------- what a request did --------------------------- *)

\* the handler of the request in hand has run
Handled(method) == req.method = method /\ pc \in {"next", "fault"}

\* the Domain the request named, as stored when the request was received
Target == pre.Domains[req.vDomain]

Resolved == req.vDomain # NoDomain

\* the caller holds DOMAIN, SPONSOR or ADMIN over the Domain the request named
CallerHasAccess == checkAccessToEntity(req.vAuthToken, Target, {"DOMAIN", "SPONSOR", "ADMIN"})

Failure(msg) == pc = "next" /\ vRestResp.success = FALSE /\ vRestResp.message = msg

Success == pc = "next" /\ vRestResp.success = TRUE /\ vRestResp.message = ""

\* the fields setDomainField was given by this request
FieldsGiven == {setCalls[i][1] : i \in 1..Len(setCalls)}

\* every stored field of every Domain is as it was when the request was received
DomainsUntouched == Domains = pre.Domains

(* ---------------------------------- C1 ---------------------------------- *)

\* C1: a PUT on a resolved Domain by a caller without DOMAIN, SPONSOR or ADMIN
\* over it answers 'Unauthorized' whatever the body, gives setDomainField and
\* Domains.updateEntityFields nothing, and leaves every stored field as it was.
C1_UnauthorizedPutChangesNothing ==
  (Handled("PUT") /\ Resolved /\ ~CallerHasAccess) =>
    /\ Failure("Unauthorized")
    /\ setCalls = <<>>
    /\ commits = <<>>
    /\ DomainsUntouched

\* an Account that is neither sponsor nor admin sent fields for D1
C1_Witness ==
  /\ Handled("PUT") /\ Resolved /\ ~CallerHasAccess
  /\ req.vAuthToken = "tok_user"
  /\ req.body.kind = "object" /\ "capacity" \in DOMAIN req.body.flat
  /\ Failure("Unauthorized")

(* ---------------------------------- C2 ---------------------------------- *)

\* C2: every PUT makes at most one commit, and exactly one if and only if the
\* Domain was resolved, the caller has access and the body's domain is present;
\* that commit carries timeOfLastHeartbeat = now and every accepted field.
C2_OneCommitIffGatesPass ==
  Handled("PUT") =>
    /\ Len(commits) <= 1
    /\ Len(commits) = 1 <=> (Resolved /\ CallerHasAccess /\ req.body.kind = "object")
    /\ \A i \in 1..Len(commits) :
         /\ "timeOfLastHeartbeat" \in DOMAIN commits[i]
         /\ commits[i]["timeOfLastHeartbeat"] = now
         /\ \A j \in 1..Len(setCalls) :
              FieldAccepted(req.vAuthToken, Target, setCalls[j][1], setCalls[j][2])
                => setCalls[j][1] \in DOMAIN commits[i]

(* ---------------------------------- C3 ---------------------------------- *)

\* the names of the flat allow-list, the meta allow-list and the heartbeat pair
ListedNames ==
  {"version", "protocol", "network_addr", "network_port", "automatic_networking",
   "restricted", "capacity", "description", "maturity", "restriction", "hosts", "tags",
   "contact_info", "managers", "images", "thumbnail", "world_name",
   "num_users", "num_anon_users"}

\* C3: whatever the credential and the body, a PUT never gives setDomainField a
\* field outside the allow-lists and the heartbeat pair, never commits one, and
\* never changes a Domain's stored value of one.
C3_AllowListClosure ==
  Handled("PUT") =>
    /\ FieldsGiven \subseteq ListedNames
    /\ \A i \in 1..Len(commits) : DOMAIN commits[i] \subseteq ListedNames \cup {"timeOfLastHeartbeat"}
    /\ \A d \in DOMAIN Domains : \A f \in EntityFields \ (ListedNames \cup {"timeOfLastHeartbeat"}) :
         Domains[d][f] = pre.Domains[d][f]

\* an administrator sent a new sponsor for D1 among the flat fields, and the
\* request was committed
C3_Witness ==
  /\ Handled("PUT") /\ Resolved /\ req.vAuthToken = "tok_admin"
  /\ req.body.kind = "object"
  /\ "sponsor_account_id" \in DOMAIN req.body.flat
  /\ req.body.flat["sponsor_account_id"] \in ValidValues
  /\ "api_key" \in DOMAIN req.body.meta.fields
  /\ Len(commits) = 1
  /\ Success

(* ---------------------------------- C4 ---------------------------------- *)

AdminDelete == Handled("DELETE") /\ Resolved /\ req.vAuthAccount = "admin"

\* the Places that referenced the Domain when the request was received
TargetPlaces == {p \in pre.Places : p.domainId = req.vDomain}

\* C5: after an administrator's DELETE of a resolved Domain D answered success,
\* D is not in the Domain store, Places.removePlace was given every Place that
\* referenced D, and no Place referencing D is left but one whose removal failed.
C5_CascadeComplete ==
  AdminDelete =>
    /\ Success
    /\ req.vDomain \notin DOMAIN Domains
    /\ removed.places = {p.id : p \in TargetPlaces}
    /\ \A p \in Places : p.domainId = req.vDomain => p.id \in req.placeFail

\* an administrator deleted a Domain with three Places, no removal failed, and
\* none of the three is left
C5_Witness ==
  /\ AdminDelete /\ Success
  /\ Cardinality(TargetPlaces) >= 3
  /\ req.placeFail = {}
  /\ TargetPlaces \cap Places = {}
  /\ req.vDomain \notin DOMAIN Domains

\* C6: when the removal of a Place fails during an administrator's DELETE of
\* Domain D, every other Place referencing D is still given to
\* Places.removePlace and leaves the store, D stays removed, and the answer is
\* a success.
C6_BestEffortCascade ==
  (AdminDelete /\ \E p \in TargetPlaces : p.id \in req.placeFail) =>
    /\ Success
    /\ removed.domains = {req.vDomain}
    /\ req.vDomain \notin DOMAIN Domains
    /\ \A p \in TargetPlaces :
         p.id \notin req.placeFail => (p.id \in removed.places /\ p \notin Places)

\* one removal failed, two other Places of the Domain were removed
C6_Witness ==
  /\ AdminDelete /\ Success
  /\ Cardinality(req.placeFail) = 1
  /\ Cardinality(TargetPlaces \cap Places) = 1
  /\ Cardinality(TargetPlaces \ Places) >= 2
  /\ req.vDomain \notin DOMAIN Domains

\* C8: a DELETE by a caller with no Account, or with an Account that is not an
\* administrator, answers 'Not authorized' and gives Domains.removeDomain and
\* Places.removePlace nothing: both stores are as they were.
C8_DeleteNeedsAdmin ==
  (Handled("DELETE") /\ req.vAuthAccount # "admin") =>
    /\ Failure("Not authorized")
    /\ removed = NoneRemoved
    /\ Domains = pre.Domains
    /\ Places = pre.Places

\* the sponsor of D1 asked to delete D1
C8_Witness ==
  /\ Handled("DELETE") /\ Resolved
  /\ req.vDomain = "D1" /\ req.vAuthToken = "tok_sponsor"
  /\ Failure("Not authorized")
  /\ Cardinality({p \in Places : p.domainId = "D1"}) >= 3

(* ---------------------------------- C7 ---------------------------------- *)

\* the allow-listed fields the body holds, each with the value it holds and the
\* place it is read at: 1 the flat fields, 2 the heartbeat pair, 3 the meta fields
ListedPairs(body) ==
  {[rank |-> 1, field |-> f, value |-> body.flat[f]] :
     f \in (DOMAIN body.flat) \cap Range(FlatFields)}
  \cup (IF body.heartbeat.kind = "object"
          THEN {[rank |-> 2, field |-> f, value |-> Prop(body.heartbeat.fields, f)] :
                  f \in Range(HeartbeatFields)}
          ELSE {})
  \cup (IF body.meta.kind = "object"
          THEN {[rank |-> 3, field |-> f, value |-> body.meta.fields[f]] :
                  f \in (DOMAIN body.meta.fields) \cap Range(MetaFields)}
          ELSE {})

\* the field's value is one setDomainField accepts from this caller
PairAccepted(p) == FieldAccepted(req.vAuthToken, Target, p.field, p.value)

EmptyObject ==
  [kind |-> "object", flat |-> NoProps, heartbeat |-> NoHeartbeat, meta |-> NoMeta]

\* C9 as the specification states it: an authorized PUT whose body is
\* {domain:{}} answers 'badly formed data', commits nothing and leaves every
\* stored field, timeOfLastHeartbeat included, as it was.
C9_EmptyObjectIsBadlyFormed ==
  (Handled("PUT") /\ Resolved /\ CallerHasAccess /\ req.body = EmptyObject) =>
    /\ Failure("badly formed data")
    /\ commits = <<>>
    /\ DomainsUntouched

\* C9 as the handler has it: an authorized PUT whose body is {domain:{}} answers
\* success, gives setDomainField nothing, and makes one commit that holds
\* timeOfLastHeartbeat = now alone; every other stored field is as it was.
C9_EmptyObjectIsAHeartbeat ==
  (Handled("PUT") /\ Resolved /\ CallerHasAccess /\ req.body = EmptyObject) =>
    /\ Success
    /\ setCalls = <<>>
    /\ Len(commits) = 1
    /\ DOMAIN commits[1] = {"timeOfLastHeartbeat"}
    /\ commits[1]["timeOfLastHeartbeat"] = now
    /\ Domains[req.vDomain]["timeOfLastHeartbeat"] = now
    /\ \A d \in DOMAIN Domains : \A f \in EntityFields \ {"timeOfLastHeartbeat"} :
         Domains[d][f] = pre.Domains[d][f]

\* the Domain itself sent {domain:{}} after the clock had moved: its heartbeat
\* time moved with it
C9_Witness ==
  /\ Handled("PUT") /\ Resolved /\ CallerHasAccess /\ req.body = EmptyObject
  /\ req.vAuthToken = "key_D1"
  /\ Success
  /\ Domains["D1"]["timeOfLastHeartbeat"] > Target["timeOfLastHeartbeat"]

\* C10: an authorized PUT whose body has no 'domain' answers 'badly formed
\* data', gives setDomainField nothing, commits nothing and leaves the stored
\* Domain, timeOfLastHeartbeat included, as it was.
C10_MissingPayloadIsBadlyFormed ==
  (Handled("PUT") /\ Resolved /\ CallerHasAccess /\ req.body.kind = "undefined") =>
    /\ Failure("badly formed data")
    /\ setCalls = <<>>
    /\ commits = <<>>
    /\ DomainsUntouched

\* an administrator sent a PUT without 'domain' after the clock had moved
C10_Witness ==
  /\ Handled("PUT") /\ Resolved /\ CallerHasAccess /\ req.body.kind = "undefined"
  /\ req.vAuthToken = "tok_admin"
  /\ now > 0
  /\ Failure("badly formed data")

(* ---------------------------------- C11 --------------------------------- *)

\* C11: whatever the request and its body, the handler ends by calling next()
\* with a response of the success/failure contract: its promise is never
\* rejected.
C11_NoUnhandledFault ==
  \A method \in {"GET", "PUT", "DELETE"} : Handled(method) => pc = "next"

(* ---------------------------------- C12 --------------------------------- *)

\* C12: on GET and PUT the response carries the Unauthorized status when the
\* Domain was not resolved and also when it was resolved and the caller was
\* refused access: the same status for both causes.
C12_FailureStatusIsUnauthorized ==
  ((Handled("GET") \/ Handled("PUT")) /\ pc = "next") =>
    /\ ~Resolved => vRestResp.HTTPStatus = StatusUnauthorized
    /\ (req.method = "PUT" /\ Resolved /\ ~CallerHasAccess)
         => vRestResp.HTTPStatus = StatusUnauthorized

(* ---------------------------------- C13 --------------------------------- *)

C14_DeleteOfMissingDomain ==
  (Handled("DELETE") /\ req.vAuthAccount = "admin" /\ ~Resolved) =>
    /\ Failure("Target domain does not exist")
    /\ removed = NoneRemoved
    /\ Domains = pre.Domains
    /\ Places = pre.Places

\* an administrator asked to delete D9, which was never registered
C14_Witness ==
  /\ Handled("DELETE") /\ req.vAuthToken = "tok_admin" /\ req.domainId = "D9"
  /\ ~Resolved
  /\ Failure("Target domain does not exist")
  /\ Cardinality(Places) = MaxPlaces

(* ---------------------------------- C15 --------------------------------- *)

\* the <<field, value>> pairs of the names of a list that an object holds, in
\* the order of the list
CallsFor(fields, values) ==
  LET held == SelectSeq(fields, LAMBDA f : f \in DOMAIN values)
  IN  [i \in 1..Len(held) |-> <<held[i], values[held[i]]>>]

\* the pair read from the body's 'heartbeat' object
HeartbeatCalls(body) ==
  IF body.heartbeat.kind = "object"
    THEN << <<"num_users", Prop(body.heartbeat.fields, "num_users")>>,
            <<"num_anon_users", Prop(body.heartbeat.fields, "num_anon_users")>> >>
    ELSE <<>>

\* an authorized PUT on a resolved Domain whose body holds a 'meta' object
\* has called next()
MetaUpdate ==
  /\ Handled("PUT") /\ pc = "next" /\ Resolved /\ CallerHasAccess
  /\ req.body.kind = "object" /\ req.body.meta.kind = "object"

NoPayloadUpdate == Handled("PUT") /\ Resolved /\ req.body.kind # "object"

\* C16 as the specification states it: a PUT on a resolved Domain without a
\* payload answers 'badly formed data' whether or not the caller has access,
\* and 'Unauthorized' is answered only when a payload is present.
C16_PayloadBeforePermission ==
  /\ NoPayloadUpdate => Failure("badly formed data")
  /\ (Handled("PUT") /\ Resolved /\ Failure("Unauthorized")) => req.body.kind = "object"

\* C16 as the handler has it: the permission check comes first.  A PUT on a
\* resolved Domain by a caller without access answers 'Unauthorized' whether
\* or not a payload is present, and 'badly formed data' is answered only to a
\* caller with access.
C16_PermissionBeforePayload ==
  /\ NoPayloadUpdate =>
       IF CallerHasAccess THEN Failure("badly formed data") ELSE Failure("Unauthorized")
  /\ (Handled("PUT") /\ Resolved /\ ~CallerHasAccess) => Failure("Unauthorized")
  /\ (Handled("PUT") /\ Resolved /\ Failure("badly formed data")) => CallerHasAccess

\* an Account without access to D1 sent a PUT with no 'domain' and was
\* answered 'Unauthorized'
C16_Witness ==
  /\ NoPayloadUpdate /\ req.vAuthToken = "tok_user" /\ req.body.kind = "undefined"
  /\ Failure("Unauthorized")
  /\ commits = <<>>

(* ---------------------------------- C18 --------------------------------- *)

\* the body holds a property of that name: at its top level, in its
\* 'heartbeat' object or in its 'meta' object
StructurallyPresent(body, f) ==
  \/ f \in DOMAIN body.flat
  \/ body.heartbeat.kind = "object" /\ f \in DOMAIN body.heartbeat.fields
  \/ body.meta.kind = "object" /\ f \in DOMAIN body.meta.fields

\* C18: a PUT gives setDomainField only fields the body holds, never an
\* undefined value for one it does not hold, and every field the body does not
\* hold keeps its stored value, timeOfLastHeartbeat excepted.
C18_AbsentFieldsUntouched ==
  Handled("PUT") =>
    /\ \A i \in 1..Len(setCalls) :
         StructurallyPresent(req.body, setCalls[i][1]) /\ setCalls[i][2] # Undefined
    /\ \A d \in DOMAIN Domains : \A f \in EntityFields \ {"timeOfLastHeartbeat"} :
         ~StructurallyPresent(req.body, f) => Domains[d][f] = pre.Domains[d][f]

(* ---------------------------------- C20 --------------------------------- *)

\* the request in hand, had the middleware resolved its :domainId to d
WithTarget(d) == [req EXCEPT !.vDomain = d, !.placeFail = {}]

\* C20: a DELETE by a caller who is no administrator is answered 'Not
\* authorized' and changes neither store, and the response is the one the same
\* caller gets for every other target, resolved or not; 'Target domain does not
\* exist' is answered to administrators only.
C20_DeleteHidesExistence ==
  Handled("DELETE") =>
    /\ req.vAuthAccount # "admin" =>
         /\ vRestResp = respondFailure(FreshResponse, "Not authorized")
         /\ Domains = pre.Domains /\ Places = pre.Places
         /\ \A d \in (DOMAIN pre.Domains) \cup {NoDomain} :
              LET out == DeleteOutcome(WithTarget(d), pre.Domains, pre.Places, FreshResponse)
              IN  out.resp = vRestResp /\ out.domains = Domains /\ out.places = Places
    /\ Failure("Target domain does not exist") => req.vAuthAccount = "admin"

\* an Account that is no administrator asked to delete D9, which was never
\* registered, and was answered as for a registered Domain
C20_Witness ==
  /\ Handled("DELETE") /\ req.vAuthToken = "tok_user" /\ req.domainId = "D9" /\ ~Resolved
  /\ Failure("Not authorized")
  /\ DeleteOutcome(WithTarget("D1"), pre.Domains, pre.Places, FreshResponse).resp = vRestResp

(* ---------------------------------- C17 --------------------------------- *)

\* C17: in every state, the states a DELETE passes through included, every
\* Place of the store references a Domain of the store.
C17_PlaceNeverOutlivesDomain ==
  \A p \in Places : p.domainId \in DOMAIN Domains

(* ---------------------------------- C19 --------------------------------- *)

\* C19: with the updates of concurrent PUTs applied by the store in any order,
\* no step moves a Domain's stored timeOfLastHeartbeat to an earlier value.
C19_HeartbeatAdvancesUnderInterleaving ==
  [][\A d \in DOMAIN Domains :
       Domains'[d]["timeOfLastHeartbeat"] >= Domains[d]["timeOfLastHeartbeat"]]_vars

====
